---- MODULE Spec2Model ----
(***************************************************************************)
(* A model of the filtering and selection pipeline of the news filter      *)
(* (src/src/filter.py): text normalisation, keyword matching, negative     *)
(* exclusion, positive categorisation and the round-robin selection of     *)
(* sort_and_limit; of the mail delivery and the retry loop around it       *)
(* (src/src/email_sender.py); and of the daily job that runs them          *)
(* (src/src/scheduler.py).                                                 *)
(*                                                                         *)
(* Text is a sequence of one-character strings.  An article is a record   *)
(* whose DOMAIN is the set of keys the Python dict holds, so a missing key *)
(* is a missing field.  A dict is a sequence of [k, v] pairs in insertion  *)
(* order, which is the order Python iterates it in.                        *)
(***************************************************************************)
EXTENDS Integers, Sequences, FiniteSets, TLC

\* ------------------------------------------------------------------ bounds

\* Longest article list handed to filter_and_select.
MaxArticles == 2
\* Longest category bucket handed directly to sort_and_limit.
MaxBucketLen == 2
\* Largest limit handed directly to sort_and_limit (the smallest is -1).
MaxLimit == 3
\* Largest max_retries handed to send_email_with_retries.
MaxRetries == 3

\* ------------------------------------------------------------------- text

UpperChars == <<"A", "I", "T", "N", "G", "D", "P">>
LowerChars == <<"a", "i", "t", "n", "g", "d", "p">>

\* str.lower() on one character.
LowerChar(c) ==
    IF \E i \in 1..Len(UpperChars) : UpperChars[i] = c
    THEN LowerChars[CHOOSE i \in 1..Len(UpperChars) : UpperChars[i] = c]
    ELSE c

\* str.lower()
lower(text) == [i \in 1..Len(text) |-> LowerChar(text[i])]

\* The Python expression `needle in hay` on strings.
IsSubstring(needle, hay) ==
    \E i \in 0..(Len(hay) - Len(needle)) :
        SubSeq(hay, i + 1, i + Len(needle)) = needle

\* underthesea.word_tokenize, as far as the filter depends on it: the text
\* cut into its maximal runs of non-blank characters.
RECURSIVE word_tokenize(_)
word_tokenize(text) ==
    IF text = << >> THEN << >>
    ELSE IF Head(text) = " " THEN word_tokenize(Tail(text))
    ELSE LET rest == word_tokenize(Tail(text))
         IN  IF Len(text) > 1 /\ text[2] # " " /\ rest # << >>
             THEN <<(<<Head(text)>> \o Head(rest))>> \o Tail(rest)
             ELSE <<(<<Head(text)>>)>> \o rest

\* ' '.join(tokens)
RECURSIVE join(_)
join(tokens) ==
    IF tokens = << >> THEN << >>
    ELSE IF Len(tokens) = 1 THEN Head(tokens)
    ELSE Head(tokens) \o <<" ">> \o join(Tail(tokens))

\* f"{a} {b}"
Concat2(a, b) == a \o <<" ">> \o b
\* f"{a} {b} {c}"
Concat3(a, b, c) == a \o <<" ">> \o b \o <<" ">> \o c

\* dict.get(key, default)
Get(d, key, default) == IF key \in DOMAIN d THEN d[key] ELSE default

\* ------------------------------------------------------------ input data

Tech == "technology"
Econ == "economy"

W_TaiNan  == <<"T", "a", "i", " ", "n", "a", "n">>
W_tainan  == <<"t", "a", "i", " ", "n", "a", "n">>
W_tai2nan == <<"t", "a", "i", " ", " ", "n", "a", "n">>
W_AI      == <<"A", "I">>
W_Ai      == <<"A", "i">>
W_ai      == <<"a", "i">>
W_GDP     == <<"G", "D", "P">>
W_gdp     == <<"g", "d", "p">>

\* Matches the negative keyword "tai nan" and the positive keyword "AI".
A1 == [title |-> W_TaiNan, summary |-> W_AI, full_content |-> << >>,
       url |-> "u1", publish_time |-> 2]
\* Matches both categories; "gdp" is in the summary only, "tai nan" in
\* full_content only; no publish_time.
A2 == [title |-> W_AI, summary |-> W_GDP, full_content |-> W_tainan, url |-> "u2"]
\* The URL of A1 with a newer time; two blanks in the title; no summary,
\* no full_content.
A3 == [title |-> W_tai2nan, url |-> "u1", publish_time |-> 3]
\* An empty URL; "ai" in full_content only.
A4 == [title |-> W_GDP, summary |-> << >>, full_content |-> W_ai,
       url |-> "", publish_time |-> 1]
\* Title and URL only.
A5 == [title |-> W_Ai, url |-> "u3"]
\* No url key.
A6 == [title |-> W_gdp, publish_time |-> 2]

ArticlePool == {A1, A2, A3, A4, A5, A6}

\* The articles drawn for direct calls of sort_and_limit.
SortPool == {A1, A2, A3, A4}

\* All sequences over S of length at most n.
SeqsUpTo(S, n) == UNION {[1..k -> S] : k \in 0..n}

Pair(key, val) == [k |-> key, v |-> val]

PositiveChoices ==
    { << >>,
      <<Pair(Tech, <<W_AI>>)>>,
      <<Pair(Tech, <<W_AI>>), Pair(Econ, <<W_gdp, W_tainan>>)>>,
      <<Pair(Tech, << >>), Pair(Econ, <<W_GDP>>)>> }

NegativeChoices ==
    { << >>,
      <<W_tainan>>,
      <<W_gdp, W_TaiNan>> }

\* limit defaults to 5 (filter_and_select, sort_and_limit).
DefaultLimit == 5

FilterLimits == {0, 1, DefaultLimit}
SortLimits == (-1)..MaxLimit

\* Two categories of three articles with distinct URLs each, limit=4.
ScenarioThreeEach ==
    <<Pair(Tech, <<A1, A2, A5>>), Pair(Econ, <<A5, A3, A2>>)>>
ScenarioLimit == 4

\* Buckets holding articles with an empty url and with no url key.
ScenarioNoUrl ==
    <<Pair(Tech, <<A6, A4, A5>>), Pair(Econ, <<A4, A6>>)>>

SortScenarios ==
    { <<ScenarioThreeEach, ScenarioLimit>>, <<ScenarioNoUrl, DefaultLimit>> }

\* Every mapping of at most two categories with buckets over pool.
MappingsOver(pool) ==
    LET buckets == SeqsUpTo(pool, MaxBucketLen)
    IN  { << >> }
        \cup { <<Pair(Tech, b)>> : b \in buckets }
        \cup { <<Pair(Tech, b1), Pair(Econ, b2)>> : b1 \in buckets, b2 \in buckets }

\* The calls <<mapping, limit>> of sort_and_limit that are drawn.
SortCalls == (MappingsOver(SortPool) \X SortLimits) \cup SortScenarios

\* The calls drawn where termination is checked: the loop depends on the
\* lengths of the deduplicated buckets and on limit only.
LoopPool == {A1, A2}
LoopCalls == (MappingsOver(LoopPool) \X SortLimits) \cup SortScenarios

\* ------------------------------------------------------------------ state

VARIABLES
    pc,                    \* the statement the pipeline is at
    tokenizer,             \* "unavailable" | "works" | "raises": underthesea
    articles,              \* filter_and_select: the article list
    positive_keywords,     \* filter_and_select: category -> keywords (a dict)
    negative_keywords,     \* filter_and_select: the negative keywords
    limit,                 \* the limit argument
    filtered,              \* filter_and_select: the result of exclude_negative
    passed_mapping,        \* the mapping as it was when sort_and_limit was called
    categorized_articles,  \* the dict object sort_and_limit was handed
    selected_articles,     \* sort_and_limit: the round-robin selection
    category_indices,      \* sort_and_limit: category -> cursor
    added_in_round,        \* sort_and_limit: whether the last sweep appended
    final_articles,        \* the returned list
    fn_pc,                 \* a text function called on its own: where it is
    arg_text,              \* its text argument
    arg_keywords,          \* check_keyword_match: its keywords argument
    returned_text,        \* preprocess_vietnamese_text: the returned text
    escaped,               \* preprocess_vietnamese_text: an exception left it
    match,                 \* check_keyword_match: the returned value
    mail_pc,               \* send_email_with_retries: the statement it is at
    max_retries,           \* send_email_with_retries: the max_retries argument
    attempt,               \* send_email_with_retries: the loop variable
    sent_log,              \* how each send_email call so far ended
    sleeps,                \* the arguments of the time.sleep calls so far
    returned,              \* send_email_with_retries: the returned value
    repeated,              \* filter_and_select was called again, same inputs
    first_result,          \* what the first of the two calls returned
    send_pc,               \* send_email: the statement it is at
    smtp_config,           \* send_email: the smtp_config argument (a dict)
    recipients,            \* send_email: the recipients argument
    smtp_calls,            \* the smtplib calls send_email has made
    server,                \* "none" | "open" | "closed": the SMTP connection
    caught,                \* the except clause send_email ended in, or "none"
    send_result,           \* send_email: the returned value
    run_pc,                \* pipeline(): the step it is at
    steps,                 \* the collaborators pipeline() has called
    emailed,               \* the list handed to send_notification_email
    raised_in,             \* the collaborator that raised, or "none"
    error_logged,          \* the except clause of pipeline() logged an error
    pipeline_escaped       \* an exception left pipeline()

filterVars == <<pc, articles, positive_keywords, negative_keywords, limit,
                filtered, passed_mapping, categorized_articles, selected_articles,
                category_indices, added_in_round, final_articles>>
textVars == <<fn_pc, arg_text, arg_keywords, returned_text, escaped, match>>
mailVars == <<mail_pc, max_retries, attempt, sent_log, sleeps, returned>>
againVars == <<repeated, first_result>>
sendVars == <<send_pc, smtp_config, recipients, smtp_calls, server, caught, send_result>>
pipeVars == <<run_pc, steps, emailed, raised_in, error_logged, pipeline_escaped>>

vars == <<tokenizer, filterVars, textVars, mailVars, againVars, sendVars, pipeVars>>

\* What the steps of one function leave alone.
notFilter == <<textVars, mailVars, againVars, sendVars, pipeVars>>
notText == <<tokenizer, filterVars, mailVars, againVars, sendVars, pipeVars>>
notMail == <<tokenizer, filterVars, textVars, againVars, sendVars, pipeVars>>
notSend == <<tokenizer, filterVars, textVars, mailVars, againVars, pipeVars>>
notPipe == <<textVars, mailVars, againVars, sendVars>>

inputVars == <<articles, positive_keywords, negative_keywords>>
loopVars == <<selected_articles, category_indices, added_in_round>>
workVars == <<filtered, passed_mapping, categorized_articles, loopVars, final_articles>>

\* ---------------------------------------------------------- text matching

\* UNDERTHESEA_AVAILABLE: the import at module load succeeded.
UNDERTHESEA_AVAILABLE == tokenizer # "unavailable"

\* Python's None where a text is expected: a value that is no text.
None == <<"None">>

\* `not text`
Falsy(text) == text = None \/ text = << >>

\* The call word_tokenize(text): the tokens, or an exception.
TokenizeOutcome(text) ==
    IF tokenizer = "raises"
    THEN [raised |-> TRUE, tokens |-> << >>]
    ELSE [raised |-> FALSE, tokens |-> word_tokenize(text)]

\* The tokenizer call without the try around it.
TryTokenize_NoExcept(text) ==
    LET outcome == TokenizeOutcome(text)
    IN  IF outcome.raised
        THEN [escaped |-> TRUE, text |-> << >>]
        ELSE [escaped |-> FALSE, text |-> join(outcome.tokens)]

\* The try block of preprocess_vietnamese_text: the joined tokens are
\* returned; `except Exception: pass` goes on to `return text`.
TryTokenize(text) ==
    LET outcome == TokenizeOutcome(text)
    IN  IF outcome.raised
        THEN [escaped |-> FALSE, text |-> text]
        ELSE [escaped |-> FALSE, text |-> join(outcome.tokens)]

\* preprocess_vietnamese_text leaving the letter case alone.
PreprocessOutcome_NoLower(text) ==
    IF Falsy(text) THEN [escaped |-> FALSE, text |-> << >>]
    ELSE IF UNDERTHESEA_AVAILABLE THEN TryTokenize(text)
    ELSE [escaped |-> FALSE, text |-> text]

\* How a call of preprocess_vietnamese_text ends: with the returned text,
\* or with an exception.
PreprocessOutcome(text) ==
    IF Falsy(text) THEN [escaped |-> FALSE, text |-> << >>]
    ELSE LET lowered == lower(text)
         IN  IF UNDERTHESEA_AVAILABLE THEN TryTokenize(lowered)
             ELSE [escaped |-> FALSE, text |-> lowered]

preprocess_vietnamese_text(text) == PreprocessOutcome(text).text

\* The keyword loop giving up after the first keyword.
KeywordLoop_FirstOnly(processed_text, keywords) ==
    /\ keywords # << >>
    /\ IsSubstring(preprocess_vietnamese_text(Head(keywords)), processed_text)

\* The for loop of check_keyword_match, with its early return.
RECURSIVE KeywordLoop(_, _)
KeywordLoop(processed_text, keywords) ==
    IF keywords = << >> THEN FALSE
    ELSE IF IsSubstring(preprocess_vietnamese_text(Head(keywords)), processed_text)
    THEN TRUE
    ELSE KeywordLoop(processed_text, Tail(keywords))

\* check_keyword_match without its test for empty arguments.
check_keyword_match_NoEmptyCheck(text, keywords) ==
    KeywordLoop(preprocess_vietnamese_text(text), keywords)

check_keyword_match(text, keywords) ==
    IF Falsy(text) \/ keywords = << >> THEN FALSE
    ELSE KeywordLoop(preprocess_vietnamese_text(text), keywords)

\* ------------------------------------------------------- negative filter

\* The text exclude_negative inspects: title and summary only.
NegativeText(article) ==
    Concat2(Get(article, "title", << >>), Get(article, "summary", << >>))

RECURSIVE ExcludeLoop(_, _)
ExcludeLoop(arts, negs) ==
    IF arts = << >> THEN << >>
    ELSE LET article == Head(arts)
             has_negative == check_keyword_match(NegativeText(article), negs)
         IN  (IF ~has_negative THEN <<article>> ELSE << >>)
             \o ExcludeLoop(Tail(arts), negs)

\* exclude_negative looking at the title alone.
RECURSIVE ExcludeLoopTitleOnly(_, _)
ExcludeLoopTitleOnly(arts, negs) ==
    IF arts = << >> THEN << >>
    ELSE (IF ~check_keyword_match(Get(Head(arts), "title", << >>), negs)
          THEN <<Head(arts)>> ELSE << >>)
         \o ExcludeLoopTitleOnly(Tail(arts), negs)

exclude_negative_TitleOnly(arts, negs) ==
    IF negs = << >> THEN arts ELSE ExcludeLoopTitleOnly(arts, negs)

\* exclude_negative returning nothing when there is no negative keyword.
exclude_negative_EmptyOnNoKeywords(arts, negs) ==
    IF negs = << >> THEN << >> ELSE ExcludeLoop(arts, negs)

\* exclude_negative looking at the full content as well.
RECURSIVE ExcludeLoopFullContent(_, _)
ExcludeLoopFullContent(arts, negs) ==
    IF arts = << >> THEN << >>
    ELSE (IF ~check_keyword_match(Concat3(Get(Head(arts), "title", << >>),
                                          Get(Head(arts), "summary", << >>),
                                          Get(Head(arts), "full_content", << >>)), negs)
          THEN <<Head(arts)>> ELSE << >>)
         \o ExcludeLoopFullContent(Tail(arts), negs)

exclude_negative_FullContent(arts, negs) ==
    IF negs = << >> THEN arts ELSE ExcludeLoopFullContent(arts, negs)

exclude_negative(arts, negs) ==
    IF negs = << >> THEN arts ELSE ExcludeLoop(arts, negs)

\* ---------------------------------------------------- positive categorizer

\* The text categorize_positive inspects.
PositiveText(article) ==
    Concat3(Get(article, "title", << >>), Get(article, "summary", << >>),
            Get(article, "full_content", << >>))

\* The inner loop of categorize_positive passing over an article that lacks
\* a text field.
RECURSIVE BucketLoop_CompleteOnly(_, _)
BucketLoop_CompleteOnly(arts, keywords) ==
    IF arts = << >> THEN << >>
    ELSE (IF /\ {"title", "summary", "full_content"} \subseteq DOMAIN Head(arts)
             /\ check_keyword_match(PositiveText(Head(arts)), keywords)
          THEN <<Head(arts)>> ELSE << >>)
         \o BucketLoop_CompleteOnly(Tail(arts), keywords)

\* The inner loop of categorize_positive leaving the full content out.
RECURSIVE BucketLoop_NoContent(_, _)
BucketLoop_NoContent(arts, keywords) ==
    IF arts = << >> THEN << >>
    ELSE (IF check_keyword_match(NegativeText(Head(arts)), keywords)
          THEN <<Head(arts)>> ELSE << >>)
         \o BucketLoop_NoContent(Tail(arts), keywords)

\* The inner loop of categorize_positive: the bucket of one category.
RECURSIVE BucketLoop(_, _)
BucketLoop(arts, keywords) ==
    IF arts = << >> THEN << >>
    ELSE (IF check_keyword_match(PositiveText(Head(arts)), keywords)
          THEN <<Head(arts)>> ELSE << >>)
         \o BucketLoop(Tail(arts), keywords)

\* categorize_positive creating a category only at its first match.
categorize_positive_SkipEmpty(arts, positive) ==
    LET all == [i \in 1..Len(positive) |->
                   Pair(positive[i].k, BucketLoop(arts, positive[i].v))]
        Matched(p) == p.v # << >>
    IN  SelectSeq(all, Matched)

categorize_positive(arts, positive) ==
    [i \in 1..Len(positive) |-> Pair(positive[i].k, BucketLoop(arts, positive[i].v))]

\* ------------------------------------------------------------ sort_and_limit

\* datetime.min, the sort key of an article without publish_time.
DatetimeMin == 0

\* The duplicate-removal loop of sort_and_limit (the same loop is written
\* again for the final list): an article is appended when its url is
\* non-empty and not seen before.
RECURSIVE UniqueLoop(_, _)
UniqueLoop(arts, seen_urls) ==
    IF arts = << >> THEN << >>
    ELSE LET article == Head(arts)
             url == Get(article, "url", "")
         IN  IF url # "" /\ url \notin seen_urls
             THEN <<article>> \o UniqueLoop(Tail(arts), seen_urls \cup {url})
             ELSE UniqueLoop(Tail(arts), seen_urls)

\* The duplicate-removal loop starting at the second article.
unique_articles_SkipFirst(arts) ==
    IF arts = << >> THEN << >> ELSE UniqueLoop(Tail(arts), {})

\* The duplicate removal keeping the last article of each url.
RECURSIVE unique_articles_KeepLast(_)
unique_articles_KeepLast(arts) ==
    IF arts = << >> THEN << >>
    ELSE LET url == Get(Head(arts), "url", "")
         IN  (IF url # "" /\ \A j \in 2..Len(arts) : Get(arts[j], "url", "") # url
              THEN <<Head(arts)>> ELSE << >>)
             \o unique_articles_KeepLast(Tail(arts))

unique_articles(arts) == UniqueLoop(arts, {})

\* key=lambda x: x.get('publish_time') or datetime.min...
SortKey(x) == Get(x, "publish_time", DatetimeMin)

\* x put into a list sorted newest first, behind every entry that is not
\* older: list.sort is stable, also with reverse=True.
InsertNewestFirst(sorted, x) ==
    LET n == Cardinality({i \in 1..Len(sorted) : SortKey(sorted[i]) >= SortKey(x)})
    IN  SubSeq(sorted, 1, n) \o <<x>> \o SubSeq(sorted, n + 1, Len(sorted))

\* list.sort(key=..., reverse=True)
RECURSIVE SortNewestFirst(_)
SortNewestFirst(arts) ==
    IF arts = << >> THEN << >>
    ELSE InsertNewestFirst(SortNewestFirst(SubSeq(arts, 1, Len(arts) - 1)),
                           arts[Len(arts)])

\* categorized_articles[category] = unique_articles, for every category.
DedupBuckets(mapping) ==
    [i \in 1..Len(mapping) |-> Pair(mapping[i].k, unique_articles(mapping[i].v))]

\* categorized_articles[category].sort(...), for every category.
SortBucketsOf(mapping) ==
    [i \in 1..Len(mapping) |-> Pair(mapping[i].k, SortNewestFirst(mapping[i].v))]

\* {category: 0 for category in categorized_articles}
InitialIndices(mapping) ==
    [c \in {mapping[i].k : i \in 1..Len(mapping)} |-> 0]

\* The loop without its `if not added_in_round: break`.
LoopGoesOn_Always(added) == TRUE

\* if not added_in_round: break
LoopGoesOn(added) == added

\* The sweep without its `if len(selected_articles) >= limit: break`.
RECURSIVE SweepFrom_NoBreak(_, _, _, _, _, _)
SweepFrom_NoBreak(i, mapping, selected, indices, added, lim) ==
    IF i > Len(mapping) THEN [selected |-> selected, indices |-> indices, added |-> added]
    ELSE LET category == mapping[i].k
             arts == mapping[i].v
             index == indices[category]
         IN  IF index < Len(arts)
             THEN SweepFrom_NoBreak(i + 1, mapping, Append(selected, arts[index + 1]),
                                    [indices EXCEPT ![category] = @ + 1], TRUE, lim)
             ELSE SweepFrom_NoBreak(i + 1, mapping, selected, indices, added, lim)

\* The sweep staying on a category until it is exhausted.
RECURSIVE SweepFrom_Greedy(_, _, _, _, _, _)
SweepFrom_Greedy(i, mapping, selected, indices, added, lim) ==
    IF i > Len(mapping) THEN [selected |-> selected, indices |-> indices, added |-> added]
    ELSE IF Len(selected) >= lim
    THEN [selected |-> selected, indices |-> indices, added |-> added]
    ELSE LET category == mapping[i].k
             arts == mapping[i].v
             index == indices[category]
         IN  IF index < Len(arts)
             THEN SweepFrom_Greedy(i, mapping, Append(selected, arts[index + 1]),
                                   [indices EXCEPT ![category] = @ + 1], TRUE, lim)
             ELSE SweepFrom_Greedy(i + 1, mapping, selected, indices, added, lim)

\* The sweep passing over an article whose url is already selected.
RECURSIVE SweepFrom_SkipSelected(_, _, _, _, _, _)
SweepFrom_SkipSelected(i, mapping, selected, indices, added, lim) ==
    IF i > Len(mapping) THEN [selected |-> selected, indices |-> indices, added |-> added]
    ELSE IF Len(selected) >= lim
    THEN [selected |-> selected, indices |-> indices, added |-> added]
    ELSE LET category == mapping[i].k
             arts == mapping[i].v
             index == indices[category]
         IN  IF index < Len(arts)
             THEN IF \E j \in 1..Len(selected) :
                        Get(selected[j], "url", "") = Get(arts[index + 1], "url", "")
                  THEN SweepFrom_SkipSelected(i + 1, mapping, selected,
                                              [indices EXCEPT ![category] = @ + 1], TRUE, lim)
                  ELSE SweepFrom_SkipSelected(i + 1, mapping, Append(selected, arts[index + 1]),
                                              [indices EXCEPT ![category] = @ + 1], TRUE, lim)
             ELSE SweepFrom_SkipSelected(i + 1, mapping, selected, indices, added, lim)

\* The sweep taking the articles of a category from the end of its list.
RECURSIVE SweepFrom_FromEnd(_, _, _, _, _, _)
SweepFrom_FromEnd(i, mapping, selected, indices, added, lim) ==
    IF i > Len(mapping) THEN [selected |-> selected, indices |-> indices, added |-> added]
    ELSE IF Len(selected) >= lim
    THEN [selected |-> selected, indices |-> indices, added |-> added]
    ELSE LET category == mapping[i].k
             arts == mapping[i].v
             index == indices[category]
         IN  IF index < Len(arts)
             THEN SweepFrom_FromEnd(i + 1, mapping, Append(selected, arts[Len(arts) - index]),
                                    [indices EXCEPT ![category] = @ + 1], TRUE, lim)
             ELSE SweepFrom_FromEnd(i + 1, mapping, selected, indices, added, lim)

\* The sweep going through the categories last to first.
RECURSIVE SweepFrom_Reversed(_, _, _, _, _, _)
SweepFrom_Reversed(i, mapping, selected, indices, added, lim) ==
    IF i > Len(mapping) THEN [selected |-> selected, indices |-> indices, added |-> added]
    ELSE IF Len(selected) >= lim
    THEN [selected |-> selected, indices |-> indices, added |-> added]
    ELSE LET category == mapping[Len(mapping) - i + 1].k
             arts == mapping[Len(mapping) - i + 1].v
             index == indices[category]
         IN  IF index < Len(arts)
             THEN SweepFrom_Reversed(i + 1, mapping, Append(selected, arts[index + 1]),
                                     [indices EXCEPT ![category] = @ + 1], TRUE, lim)
             ELSE SweepFrom_Reversed(i + 1, mapping, selected, indices, added, lim)

\* One pass of the for loop over categorized_articles.items(), from the
\* i-th category on: the selection, the cursors and added_in_round after it.
RECURSIVE SweepFrom(_, _, _, _, _, _)
SweepFrom(i, mapping, selected, indices, added, lim) ==
    IF i > Len(mapping) THEN [selected |-> selected, indices |-> indices, added |-> added]
    ELSE IF Len(selected) >= lim
    THEN [selected |-> selected, indices |-> indices, added |-> added]
    ELSE LET category == mapping[i].k
             arts == mapping[i].v
             index == indices[category]
         IN  IF index < Len(arts)
             THEN SweepFrom(i + 1, mapping, Append(selected, arts[index + 1]),
                            [indices EXCEPT ![category] = @ + 1], TRUE, lim)
             ELSE SweepFrom(i + 1, mapping, selected, indices, added, lim)

\* final_articles[:limit]
Slice(arts, lim) ==
    IF lim >= 0 THEN SubSeq(arts, 1, IF lim < Len(arts) THEN lim ELSE Len(arts))
    ELSE SubSeq(arts, 1, IF Len(arts) + lim > 0 THEN Len(arts) + lim ELSE 0)

\* The tail of sort_and_limit without the final dedup.
FinalList_NoDedup(selected, lim) == Slice(SortNewestFirst(selected), lim)

\* The tail of sort_and_limit without the final sort.
FinalList_NoSort(selected, lim) == Slice(unique_articles(selected), lim)

\* The tail of sort_and_limit: final dedup, final sort, truncation.
FinalList(selected, lim) == Slice(SortNewestFirst(unique_articles(selected)), lim)

\* ---------------------------------------------------------------- actions

Idle ==
    /\ pc = "idle"
    /\ articles = << >>
    /\ positive_keywords = << >>
    /\ negative_keywords = << >>
    /\ limit = 0
    /\ filtered = << >>
    /\ passed_mapping = << >>
    /\ categorized_articles = << >>
    /\ selected_articles = << >>
    /\ category_indices = << >>
    /\ added_in_round = FALSE
    /\ final_articles = << >>

\* No text function has been called on its own.
TextIdle ==
    /\ fn_pc = "idle"
    /\ arg_text = << >>
    /\ arg_keywords = << >>
    /\ returned_text = << >>
    /\ escaped = FALSE
    /\ match = FALSE

\* send_email_with_retries has not been called.
MailIdle ==
    /\ mail_pc = "idle"
    /\ max_retries = 0
    /\ attempt = 0
    /\ sent_log = << >>
    /\ sleeps = << >>
    /\ returned = FALSE

\* filter_and_select has not been called a second time.
AgainIdle ==
    /\ repeated = FALSE
    /\ first_result = << >>

\* send_email has not been called on its own.
SendIdle ==
    /\ send_pc = "idle"
    /\ smtp_config = << >>
    /\ recipients = << >>
    /\ smtp_calls = << >>
    /\ server = "none"
    /\ caught = "none"
    /\ send_result = FALSE

\* The daily job has not fired.
PipeIdle ==
    /\ run_pc = "idle"
    /\ steps = << >>
    /\ emailed = << >>
    /\ raised_in = "none"
    /\ error_logged = FALSE
    /\ pipeline_escaped = FALSE

\* The module is loaded with underthesea missing, working, or failing.
Init ==
    /\ tokenizer \in {"unavailable", "works", "raises"}
    /\ Idle
    /\ TextIdle
    /\ MailIdle
    /\ AgainIdle
    /\ SendIdle
    /\ PipeIdle

\* sort_and_limit does not normalise text.
InitSort ==
    /\ tokenizer = "unavailable"
    /\ Idle
    /\ TextIdle
    /\ MailIdle
    /\ AgainIdle
    /\ SendIdle
    /\ PipeIdle

\* filter_and_select(articles, positive_keywords, negative_keywords, limit)
CallFilterAndSelect ==
    /\ pc = "idle"
    /\ \E arts \in SeqsUpTo(ArticlePool, MaxArticles),
          pos \in PositiveChoices, negs \in NegativeChoices, lim \in FilterLimits :
          /\ articles' = arts
          /\ positive_keywords' = pos
          /\ negative_keywords' = negs
          /\ limit' = lim
    /\ pc' = "exclude"
    /\ UNCHANGED <<notFilter, tokenizer, filtered, passed_mapping, categorized_articles,
                   loopVars, final_articles>>

\* Step 1 taking the excluded articles out of the list it was given.
ExcludeNegative_InPlace ==
    /\ pc = "exclude"
    /\ filtered' = exclude_negative(articles, negative_keywords)
    /\ articles' = filtered'
    /\ pc' = "categorize"
    /\ UNCHANGED <<notFilter, tokenizer, positive_keywords, negative_keywords, limit,
                   passed_mapping, categorized_articles, loopVars, final_articles>>

\* Step 1: filtered = exclude_negative(articles, negative_keywords)
ExcludeNegative ==
    /\ pc = "exclude"
    /\ filtered' = exclude_negative(articles, negative_keywords)
    /\ pc' = "categorize"
    /\ UNCHANGED <<notFilter, tokenizer, inputVars, limit, passed_mapping, categorized_articles,
                   loopVars, final_articles>>

\* Step 2: categorized = categorize_positive(filtered, positive_keywords),
\* handed to sort_and_limit in step 3.
CategorizePositive ==
    /\ pc = "categorize"
    /\ categorized_articles' = categorize_positive(filtered, positive_keywords)
    /\ passed_mapping' = categorized_articles'
    /\ pc' = "dedup"
    /\ UNCHANGED <<notFilter, tokenizer, inputVars, limit, filtered, loopVars, final_articles>>

\* sort_and_limit(categorized_articles, limit), called directly.
EnterSortAndLimit(call) ==
    /\ categorized_articles' = call[1]
    /\ passed_mapping' = call[1]
    /\ limit' = call[2]
    /\ pc' = "dedup"
    /\ UNCHANGED <<notFilter, tokenizer, inputVars, filtered, loopVars, final_articles>>

CallSortAndLimit ==
    /\ pc = "idle"
    /\ \E call \in SortCalls : EnterSortAndLimit(call)

CallSortAndLimitLoop ==
    /\ pc = "idle"
    /\ \E call \in LoopCalls : EnterSortAndLimit(call)

\* Remove duplicates within each category; the deduplicated list is stored
\* back into the dict the caller passed.
DedupPerCategory ==
    /\ pc = "dedup"
    /\ categorized_articles' = DedupBuckets(categorized_articles)
    /\ pc' = "sort"
    /\ UNCHANGED <<notFilter, tokenizer, inputVars, limit, filtered, passed_mapping, loopVars,
                   final_articles>>

\* Sort each category newest first, then set up the round-robin selection.
SortPerCategory ==
    /\ pc = "sort"
    /\ categorized_articles' = SortBucketsOf(categorized_articles)
    /\ selected_articles' = << >>
    /\ category_indices' = InitialIndices(categorized_articles)
    /\ pc' = "round_robin"
    /\ UNCHANGED <<notFilter, tokenizer, inputVars, limit, filtered, passed_mapping,
                   added_in_round, final_articles>>

\* The round-robin loop paying no attention to the limit.
Sweep_IgnoringLimit ==
    /\ pc = "round_robin"
    /\ LET after == SweepFrom_NoBreak(1, categorized_articles, selected_articles,
                                      category_indices, FALSE, limit)
       IN  /\ selected_articles' = after.selected
           /\ category_indices' = after.indices
           /\ added_in_round' = after.added
           /\ pc' = IF LoopGoesOn(after.added) THEN "round_robin" ELSE "finalize"
    /\ UNCHANGED <<notFilter, tokenizer, inputVars, limit, filtered, passed_mapping,
                   categorized_articles, final_articles>>

\* One iteration of `while len(selected_articles) < limit`.
Sweep ==
    /\ pc = "round_robin"
    /\ Len(selected_articles) < limit
    /\ LET after == SweepFrom(1, categorized_articles, selected_articles,
                              category_indices, FALSE, limit)
       IN  /\ selected_articles' = after.selected
           /\ category_indices' = after.indices
           /\ added_in_round' = after.added
           /\ pc' = IF LoopGoesOn(after.added) THEN "round_robin" ELSE "finalize"
    /\ UNCHANGED <<notFilter, tokenizer, inputVars, limit, filtered, passed_mapping,
                   categorized_articles, final_articles>>

\* The while condition is false.
LimitReached ==
    /\ pc = "round_robin"
    /\ ~(Len(selected_articles) < limit)
    /\ pc' = "finalize"
    /\ UNCHANGED <<notFilter, tokenizer, inputVars, limit, filtered, passed_mapping,
                   categorized_articles, loopVars, final_articles>>

\* Final dedup, final sort, return final_articles[:limit].
Finalize ==
    /\ pc = "finalize"
    /\ final_articles' = FinalList(selected_articles, limit)
    /\ pc' = "done"
    /\ UNCHANGED <<notFilter, tokenizer, inputVars, limit, filtered, passed_mapping,
                   categorized_articles, loopVars>>

SortAndLimitSteps ==
    \/ DedupPerCategory
    \/ SortPerCategory
    \/ Sweep
    \/ LimitReached
    \/ Finalize

\* filter_and_select
Next ==
    \/ CallFilterAndSelect
    \/ ExcludeNegative
    \/ CategorizePositive
    \/ SortAndLimitSteps

Spec == Init /\ [][Next]_vars

\* sort_and_limit called on its own
NextSort ==
    \/ CallSortAndLimit
    \/ SortAndLimitSteps

SpecSort == InitSort /\ [][NextSort]_vars

NextSortLoop ==
    \/ CallSortAndLimitLoop
    \/ SortAndLimitSteps

\* sort_and_limit runs to its end once called: nothing in it waits for
\* anything.
SpecSortFair == InitSort /\ [][NextSortLoop]_vars /\ WF_vars(NextSortLoop)

\* ------------------------------------------- filter_and_select called twice

\* The articles drawn for the calls that are repeated.
TwicePool == {A1, A2, A3}

\* The first call.
CallFirst ==
    /\ CallFilterAndSelect
    /\ articles' \in SeqsUpTo(TwicePool, MaxArticles)

\* The same call once more, with the arguments of the first as they are
\* now; what the first call built is garbage.
CallAgain ==
    /\ pc = "done"
    /\ ~repeated
    /\ repeated' = TRUE
    /\ first_result' = final_articles
    /\ filtered' = << >>
    /\ passed_mapping' = << >>
    /\ categorized_articles' = << >>
    /\ selected_articles' = << >>
    /\ category_indices' = << >>
    /\ added_in_round' = FALSE
    /\ final_articles' = << >>
    /\ pc' = "exclude"
    /\ UNCHANGED <<tokenizer, inputVars, limit, textVars, mailVars, sendVars, pipeVars>>

NextTwice ==
    \/ CallFirst
    \/ CallAgain
    \/ ExcludeNegative
    \/ CategorizePositive
    \/ SortAndLimitSteps

SpecTwice == Init /\ [][NextTwice]_vars


W_Blanks     == <<" ", " ">>
W_LeadingAi  == <<" ", "A", "i">>
W_GdpAi      == <<"G", "D", "P", " ", "a", "i">>

\* The text handed to preprocess_vietnamese_text and check_keyword_match.
TextInputs ==
    {None, << >>, W_AI, W_TaiNan, W_tai2nan, W_Blanks, W_LeadingAi, W_GdpAi}

\* The keyword lists handed to check_keyword_match.
KeywordInputs ==
    {<< >>, <<W_AI>>, <<W_gdp, W_TaiNan>>, <<(<< >>)>>, <<W_Blanks, W_ai>>}

\* preprocess_vietnamese_text(text)
CallPreprocess ==
    /\ fn_pc = "idle"
    /\ \E text \in TextInputs :
          /\ arg_text' = text
          /\ returned_text' = PreprocessOutcome(text).text
          /\ escaped' = PreprocessOutcome(text).escaped
    /\ fn_pc' = "preprocessed"
    /\ UNCHANGED <<notText, arg_keywords, match>>

\* check_keyword_match(text, keywords)
CallCheckKeywordMatch ==
    /\ fn_pc = "idle"
    /\ \E text \in TextInputs, keywords \in KeywordInputs :
          /\ arg_text' = text
          /\ arg_keywords' = keywords
          /\ match' = check_keyword_match(text, keywords)
    /\ fn_pc' = "matched"
    /\ UNCHANGED <<notText, returned_text, escaped>>

NextText ==
    \/ CallPreprocess
    \/ CallCheckKeywordMatch

SpecText == Init /\ [][NextText]_vars

\* ------------------------------------------------ send_email_with_retries

\* max_retries: int = 3
DefaultMaxRetries == 3

\* How a call of send_email ends: with `return True` after quit, or with
\* `return False`: at one of the two checks, or in one of the except clauses.
SendOutcomes ==
    {"sent", "rejected", "SMTPAuthenticationError", "SMTPRecipientsRefused",
     "SMTPException", "Exception"}

\* send_email returned True.
Success(outcome) == outcome = "sent"

\* range(max_retries) made one longer.
InRange_OneMore(i, n) == i \in 0..n

\* `attempt in range(max_retries)`
InRange(i, n) == i \in 0..(n - 1)

\* send_email_with_retries(html_body, subject, recipients, smtp_config,
\* max_retries)
CallSendEmailWithRetries ==
    /\ mail_pc = "idle"
    /\ \E n \in (0..MaxRetries) \cup {DefaultMaxRetries} : max_retries' = n
    /\ attempt' = 0
    /\ mail_pc' = "for"
    /\ UNCHANGED <<notMail, sent_log, sleeps, returned>>

\* The for statement: the next attempt, or the end of the loop and
\* `return False`.
ForAttempt ==
    /\ mail_pc = "for"
    /\ IF InRange(attempt, max_retries)
       THEN /\ mail_pc' = "send"
            /\ UNCHANGED returned
       ELSE /\ mail_pc' = "done"
            /\ returned' = FALSE
    /\ UNCHANGED <<notMail, max_retries, attempt, sent_log, sleeps>>

\* The attempt followed by a sleep whenever it failed.
SendAttempt_AlwaysSleeps ==
    /\ mail_pc = "send"
    /\ \E outcome \in SendOutcomes :
          /\ sent_log' = Append(sent_log, outcome)
          /\ IF Success(outcome)
             THEN /\ returned' = TRUE
                  /\ mail_pc' = "done"
             ELSE /\ mail_pc' = "sleep"
                  /\ UNCHANGED returned
    /\ UNCHANGED <<notMail, max_retries, attempt, sleeps>>

\* success = send_email(...); `return True` on success, otherwise on to the
\* sleep or, after the last attempt, to the next turn of the loop.
SendAttempt ==
    /\ mail_pc = "send"
    /\ \E outcome \in SendOutcomes :
          /\ sent_log' = Append(sent_log, outcome)
          /\ IF Success(outcome)
             THEN /\ returned' = TRUE
                  /\ mail_pc' = "done"
                  /\ UNCHANGED attempt
             ELSE IF attempt < max_retries - 1
             THEN /\ mail_pc' = "sleep"
                  /\ UNCHANGED <<attempt, returned>>
             ELSE /\ mail_pc' = "for"
                  /\ attempt' = attempt + 1
                  /\ UNCHANGED returned
    /\ UNCHANGED <<notMail, max_retries, sleeps>>

\* time.sleep(2 ** attempt), then the next turn of the loop.
Sleep ==
    /\ mail_pc = "sleep"
    /\ sleeps' = Append(sleeps, 2 ^ attempt)
    /\ attempt' = attempt + 1
    /\ mail_pc' = "for"
    /\ UNCHANGED <<notMail, max_retries, sent_log, returned>>

NextRetry ==
    \/ CallSendEmailWithRetries
    \/ ForAttempt
    \/ SendAttempt
    \/ Sleep

SpecRetry == InitSort /\ [][NextRetry]_vars

\* ---------------------------------------------------------------- send_email

Digits == {"0", "1", "2", "3", "4", "5", "6", "7", "8", "9"}

\* A configuration value is a sequence of characters; the empty sequence
\* stands for every value Python takes for false ("", None, 0).
V_host == <<"h">>
V_user == <<"u">>
V_pass == <<"p">>
V_587  == <<"5", "8", "7">>
V_25   == <<"2", "5">>
V_NotANumber == <<"n", "a", "n">>

ValidConfig == [host |-> V_host, port |-> V_587, username |-> V_user, password |-> V_pass]

\* ['host', 'port', 'username', 'password']
required_fields == <<"host", "port", "username", "password">>

\* d without the key field.
Without(d, field) == [f \in DOMAIN d \ {field} |-> d[f]]

\* The smtp_config dicts handed to send_email: complete ones, one with a
\* port that is no number, and one for every field missing or empty.
SmtpConfigs ==
    {ValidConfig, [ValidConfig EXCEPT !.port = V_25],
     [ValidConfig EXCEPT !.port = V_NotANumber]}
    \cup {Without(ValidConfig, required_fields[i]) : i \in 1..Len(required_fields)}
    \cup {[ValidConfig EXCEPT ![required_fields[i]] = << >>] : i \in 1..Len(required_fields)}

RecipientLists == {<< >>, <<"r1">>, <<"r1", "r2">>}

\* int(value) raises ValueError or TypeError.
IntRaises(value) == value = << >> \/ \E i \in 1..Len(value) : value[i] \notin Digits

\* validate_email_config without the check of the port.
validate_email_config_NoPortCheck(config) ==
    \A i \in 1..Len(required_fields) :
        required_fields[i] \in DOMAIN config /\ config[required_fields[i]] # << >>

validate_email_config(config) ==
    /\ \A i \in 1..Len(required_fields) :
          required_fields[i] \in DOMAIN config /\ config[required_fields[i]] # << >>
    /\ ~IntRaises(config["port"])

\* The exceptions a smtplib call is taken to raise, one for each except
\* clause of send_email.
SmtpErrors ==
    {"SMTPAuthenticationError", "SMTPRecipientsRefused", "SMTPException", "Exception"}

\* send_email(html_body, subject, recipients, smtp_config)
CallSendEmail ==
    /\ send_pc = "idle"
    /\ \E config \in SmtpConfigs, to \in RecipientLists :
          /\ smtp_config' = config
          /\ recipients' = to
    /\ send_pc' = "validate"
    /\ UNCHANGED <<notSend, smtp_calls, server, caught, send_result>>

\* The two checks at the head of the try block, and the message.
ValidateAndCompose ==
    /\ send_pc = "validate"
    /\ IF ~validate_email_config(smtp_config) \/ recipients = << >>
       THEN /\ send_result' = FALSE
            /\ send_pc' = "done"
       ELSE /\ send_pc' = "SMTP"
            /\ UNCHANGED send_result
    /\ UNCHANGED <<notSend, smtp_config, recipients, smtp_calls, server, caught>>

\* One smtplib call: it returns and send_email goes on to `next`, or it
\* raises and send_email returns False from the except clause.
SmtpCall(call, next, after) ==
    /\ smtp_calls' = Append(smtp_calls, call)
    /\ \/ /\ server' = after
          /\ send_pc' = next
          /\ send_result' = (next = "done")
          /\ UNCHANGED caught
       \/ /\ \E error \in SmtpErrors : caught' = error
          /\ send_result' = FALSE
          /\ send_pc' = "done"
          /\ UNCHANGED server
    /\ UNCHANGED <<notSend, smtp_config, recipients>>

\* server = smtplib.SMTP(host, port)
Connect ==
    /\ send_pc = "SMTP"
    /\ SmtpCall("SMTP", "starttls", "open")
\* server.starttls()
StartTls ==
    /\ send_pc = "starttls"
    /\ SmtpCall("starttls", "login", "open")
\* server.login(username, password)
Login ==
    /\ send_pc = "login"
    /\ SmtpCall("login", "sendmail", "open")
\* server.sendmail(sender, recipients, message.as_string())
Sendmail ==
    /\ send_pc = "sendmail"
    /\ SmtpCall("sendmail", "quit", "open")
\* server.quit(), then `return True`
Quit ==
    /\ send_pc = "quit"
    /\ SmtpCall("quit", "done", "closed")

NextSend ==
    \/ CallSendEmail
    \/ ValidateAndCompose
    \/ Connect
    \/ StartTls
    \/ Login
    \/ Sendmail
    \/ Quit

SpecSend == InitSort /\ [][NextSend]_vars

\* ------------------------------------------------------------- the daily job

\* limit=5
PipelineLimit == 5

\* The articles fetch_articles is taken to return.
FetchPool == {A1, A5}

\* The scheduler fires pipeline(); config holds the keywords.
StartPipeline ==
    /\ run_pc = "idle"
    /\ pc = "idle"
    /\ \E pos \in PositiveChoices, negs \in NegativeChoices :
          /\ positive_keywords' = pos
          /\ negative_keywords' = negs
    /\ run_pc' = "fetch"
    /\ UNCHANGED <<tokenizer, notPipe, pc, articles, limit, workVars,
                   steps, emailed, raised_in, error_logged, pipeline_escaped>>

\* except Exception as e: logging.error(...); pipeline() returns.
Except(step) ==
    /\ raised_in' = step
    /\ error_logged' = TRUE
    /\ run_pc' = "done"
    /\ UNCHANGED pipeline_escaped

\* Step 1 going on with no articles when the fetch raises.
FetchArticles_GoesOn ==
    /\ run_pc = "fetch"
    /\ steps' = Append(steps, "fetch_articles")
    /\ \/ /\ \E arts \in SeqsUpTo(FetchPool, MaxArticles) : articles' = arts
          /\ run_pc' = "filter_call"
          /\ UNCHANGED <<raised_in, error_logged, pipeline_escaped>>
       \/ /\ raised_in' = "fetch_articles"
          /\ error_logged' = TRUE
          /\ run_pc' = "filter_call"
          /\ UNCHANGED <<articles, pipeline_escaped>>
    /\ UNCHANGED <<tokenizer, notPipe, pc, positive_keywords, negative_keywords, limit,
                   workVars, emailed>>

\* Step 1: articles = fetch_articles(sources, current_date)
FetchArticles ==
    /\ run_pc = "fetch"
    /\ steps' = Append(steps, "fetch_articles")
    /\ \/ /\ \E arts \in SeqsUpTo(FetchPool, MaxArticles) : articles' = arts
          /\ run_pc' = "filter_call"
          /\ UNCHANGED <<raised_in, error_logged, pipeline_escaped>>
       \/ /\ Except("fetch_articles")
          /\ UNCHANGED articles
    /\ UNCHANGED <<tokenizer, notPipe, pc, positive_keywords, negative_keywords, limit,
                   workVars, emailed>>

\* Step 2: filter_and_select(articles, config.positive_keywords,
\* config.negative_keywords, limit=5) is called.
CallFilter ==
    /\ run_pc = "filter_call"
    /\ steps' = Append(steps, "filter_and_select")
    /\ limit' = PipelineLimit
    /\ pc' = "exclude"
    /\ run_pc' = "filter"
    /\ UNCHANGED <<tokenizer, notPipe, inputVars, workVars,
                   emailed, raised_in, error_logged, pipeline_escaped>>

\* A step of filter_and_select inside the run.
FilterStep ==
    /\ run_pc = "filter"
    /\ \/ ExcludeNegative
       \/ CategorizePositive
       \/ SortAndLimitSteps

\* filter_and_select raises.
FilterRaises ==
    /\ run_pc = "filter"
    /\ pc # "done"
    /\ Except("filter_and_select")
    /\ UNCHANGED <<tokenizer, notPipe, filterVars, steps, emailed>>

\* Step 3 left out when nothing was selected.
SendNotification_SkipsEmpty ==
    /\ run_pc = "filter"
    /\ pc = "done"
    /\ IF final_articles = << >>
       THEN /\ run_pc' = "done"
            /\ UNCHANGED <<steps, emailed, raised_in, error_logged, pipeline_escaped>>
       ELSE /\ steps' = Append(steps, "send_notification_email")
            /\ emailed' = final_articles
            /\ \/ /\ run_pc' = "done"
                  /\ UNCHANGED <<raised_in, error_logged, pipeline_escaped>>
               \/ Except("send_notification_email")
    /\ UNCHANGED <<tokenizer, notPipe, filterVars>>

\* Step 3: success = send_notification_email(filtered_articles, config);
\* whether it returns True or False, pipeline() logs and returns.
SendNotification ==
    /\ run_pc = "filter"
    /\ pc = "done"
    /\ steps' = Append(steps, "send_notification_email")
    /\ emailed' = final_articles
    /\ \/ /\ run_pc' = "done"
          /\ UNCHANGED <<raised_in, error_logged, pipeline_escaped>>
       \/ Except("send_notification_email")
    /\ UNCHANGED <<tokenizer, notPipe, filterVars>>

NextPipeline ==
    \/ StartPipeline
    \/ FetchArticles
    \/ CallFilter
    \/ FilterStep
    \/ FilterRaises
    \/ SendNotification

SpecPipeline == Init /\ [][NextPipeline]_vars

\* ----------------------------------------------------------------- claims

Url(a) == Get(a, "url", "")
HasTime(a) == "publish_time" \in DOMAIN a
Bucket(mapping, i) == mapping[i].v
Stopped == pc \in {"finalize", "done"}

\* Every article of every category bucket, of the selection and of the
\* returned list.
ArticlesInFlight ==
    UNION { {Bucket(categorized_articles, i)[j] : j \in 1..Len(Bucket(categorized_articles, i))}
            : i \in 1..Len(categorized_articles) }
    \cup {selected_articles[j] : j \in 1..Len(selected_articles)}
    \cup {final_articles[j] : j \in 1..Len(final_articles)}

MatchesNegative(a) == check_keyword_match(NegativeText(a), negative_keywords)
MatchesSomePositive(a) ==
    \E i \in 1..Len(positive_keywords) :
        check_keyword_match(PositiveText(a), positive_keywords[i].v)

\* C1: no article whose title + " " + summary matches a negative keyword is
\* in a category bucket, in the selection or in the output of
\* filter_and_select, also when it matches positive keywords; when every
\* article matches a negative keyword the output is empty.
C1_NegativeNeverSelected ==
    /\ \A a \in ArticlesInFlight : ~MatchesNegative(a)
    /\ (pc = "done" /\ \A i \in 1..Len(articles) : MatchesNegative(articles[i]))
           => final_articles = << >>

\* A finished run in which an excluded article also matched a positive
\* keyword while another article was returned.
C1_Witness ==
    /\ pc = "done"
    /\ final_articles # << >>
    /\ \E i \in 1..Len(articles) :
          MatchesNegative(articles[i]) /\ MatchesSomePositive(articles[i])

\* C2: the list sort_and_limit returns never holds two articles with the
\* same non-empty URL.
C2_NoDuplicateUrl ==
    \A i, j \in 1..Len(final_articles) :
        (i < j /\ Url(final_articles[i]) # "") => Url(final_articles[i]) # Url(final_articles[j])

\* A finished call whose output holds a URL that was twice in the first
\* bucket and also in the second.
C2_Witness ==
    /\ pc = "done"
    /\ Len(passed_mapping) = 2
    /\ \E u \in {"u1", "u2"} :
          /\ Cardinality({j \in 1..Len(Bucket(passed_mapping, 1)) :
                             Url(Bucket(passed_mapping, 1)[j]) = u}) = 2
          /\ \E j \in 1..Len(Bucket(passed_mapping, 2)) : Url(Bucket(passed_mapping, 2)[j]) = u
          /\ \E j \in 1..Len(final_articles) : Url(final_articles[j]) = u

\* C3: for limit >= 0 the list sort_and_limit returns has at most limit
\* elements; the round-robin selection it is cut from has none more either.
C3_AtMostLimit ==
    limit >= 0 => /\ Len(final_articles) <= limit
                  /\ Len(selected_articles) <= limit

\* A finished call that returned exactly limit articles and left others out.
C3_Witness ==
    /\ pc = "done"
    /\ limit > 0
    /\ Len(final_articles) = limit
    /\ \E i \in 1..Len(categorized_articles) :
          category_indices[categorized_articles[i].k] < Len(Bucket(categorized_articles, i))

\* C4: the returned list is ordered by publish_time descending, an article
\* without publish_time counting as the minimum and so coming after every
\* article that has one.
C4_NewestFirst ==
    /\ \A i \in 1..(Len(final_articles) - 1) :
          SortKey(final_articles[i]) >= SortKey(final_articles[i + 1])
    /\ \A i, j \in 1..Len(final_articles) :
          (HasTime(final_articles[i]) /\ ~HasTime(final_articles[j])) => i < j

\* A finished call whose selection was not in order and held an article
\* without publish_time.
C4_Witness ==
    /\ pc = "done"
    /\ Len(final_articles) >= 2
    /\ unique_articles(selected_articles) # final_articles
    /\ \E j \in 1..Len(final_articles) : ~HasTime(final_articles[j])

\* The entries of arts that a dedup keeping URL-less articles would keep:
\* those with an empty url and the first of each non-empty url.
RECURSIVE KeptUpTo(_, _)
KeptUpTo(arts, n) ==
    IF n = 0 THEN << >>
    ELSE KeptUpTo(arts, n - 1)
         \o (IF Url(arts[n]) = "" \/ \A k \in 1..(n - 1) : Url(arts[k]) # Url(arts[n])
             THEN <<arts[n]>> ELSE << >>)

\* C5: the per-bucket dedup drops an article only when its non-empty URL was
\* seen earlier in the bucket; articles with an empty or missing url are all
\* kept.
C5_UrllessKept ==
    pc = "sort" =>
        \A i \in 1..Len(categorized_articles) :
            Bucket(categorized_articles, i)
                = KeptUpTo(Bucket(passed_mapping, i), Len(Bucket(passed_mapping, i)))

\* C6: after sort_and_limit returns, the mapping its caller passed holds the
\* same buckets, in the same order, as before the call.
C6_MappingUnchanged ==
    pc = "done" => categorized_articles = passed_mapping

\* C7: when the round-robin selection has stopped, no category was picked
\* from more than once more than another unless that other is exhausted;
\* two categories of three distinct articles with limit=4 give two picks each.
C7_Balanced ==
    Stopped =>
        /\ \A i, j \in 1..Len(categorized_articles) :
              \/ category_indices[categorized_articles[i].k]
                     - category_indices[categorized_articles[j].k] <= 1
              \/ category_indices[categorized_articles[j].k]
                     = Len(Bucket(categorized_articles, j))
        /\ (passed_mapping = ScenarioThreeEach /\ limit = ScenarioLimit)
               => category_indices[Tech] = 2 /\ category_indices[Econ] = 2

\* The three-each scenario stopped with two picks from each category and an
\* article left in each.
C7_Witness ==
    /\ pc = "done"
    /\ passed_mapping = ScenarioThreeEach
    /\ limit = ScenarioLimit
    /\ Len(selected_articles) = 4
    /\ \A i \in 1..2 : /\ Len(Bucket(categorized_articles, i)) = 3
                       /\ category_indices[categorized_articles[i].k] = 2

\* C8: the round-robin loop terminates: a sweep that leaves the loop running
\* has appended an article, the loop is left only with limit articles
\* selected or after a sweep that added none, and every call that started
\* returns.
C8_Terminates ==
    /\ [][(pc = "round_robin" /\ pc' = "round_robin")
              => Len(selected_articles') > Len(selected_articles)]_vars
    /\ [][(pc = "round_robin" /\ pc' = "finalize")
              => (Len(selected_articles') >= limit \/ ~added_in_round')]_vars
    /\ (pc = "dedup") ~> (pc = "done")

\* The loop was left after a sweep that added nothing, with fewer than limit
\* articles selected.
C8_Witness ==
    /\ pc = "finalize"
    /\ ~added_in_round
    /\ selected_articles # << >>
    /\ Len(selected_articles) < limit

\* C9: with no negative keyword exclude_negative returns its input: the same
\* articles in the same order.
C9_EmptyNegativeIdentity ==
    (pc \notin {"idle", "exclude"} /\ negative_keywords = << >>) => filtered = articles

\* exclude_negative has run on two different articles with no negative keyword.
C9_Witness ==
    /\ pc = "categorize"
    /\ negative_keywords = << >>
    /\ Len(articles) >= 2
    /\ articles[1] # articles[2]
    /\ filtered = articles

\* Whether title + " " + summary of a contains no negative keyword, letter
\* case ignored.
C10_FreeIgnoringCase(a) ==
    \A i \in 1..Len(negative_keywords) :
        ~IsSubstring(lower(negative_keywords[i]), lower(NegativeText(a)))

\* C10 as stated: exclude_negative returns exactly the articles, in input
\* order, whose title + " " + summary contains no negative keyword
\* case-insensitively.
C10_CaseInsensitiveContainment ==
    pc \notin {"idle", "exclude"} => filtered = SelectSeq(articles, C10_FreeIgnoringCase)

\* Text as the matcher compares it: lowercased and, when the tokenizer
\* works, put together again from its tokens.
C10_Normal(text) ==
    IF tokenizer = "works" THEN join(word_tokenize(lower(text))) ELSE lower(text)

C10_FreeNormalized(a) ==
    \A i \in 1..Len(negative_keywords) :
        ~IsSubstring(C10_Normal(negative_keywords[i]), C10_Normal(NegativeText(a)))

\* C10 as amended: exclude_negative returns exactly the articles, in input
\* order, whose normalised title + " " + summary contains no normalised
\* negative keyword; without a working tokenizer that is containment with
\* letter case ignored.
C10_NormalizedContainment ==
    pc \notin {"idle", "exclude"} => filtered = SelectSeq(articles, C10_FreeNormalized)

\* exclude_negative kept one article and dropped another that does not
\* contain a negative keyword letter for letter, case ignored.
C10_Witness ==
    /\ pc = "categorize"
    /\ filtered # << >>
    /\ \E i \in 1..Len(articles) :
          /\ C10_FreeIgnoringCase(articles[i])
          /\ \A j \in 1..Len(filtered) : filtered[j] # articles[i]

\* The article a with its full_content set to content.
WithContent(a, content) ==
    [f \in DOMAIN a \cup {"full_content"} |->
        IF f = "full_content" THEN content ELSE a[f]]

C11_KeptIfContentNegative(a) ==
    exclude_negative(<<WithContent(a, join(negative_keywords))>>, negative_keywords) # << >>

C11_KeptIfContentEmpty(a) ==
    exclude_negative(<<WithContent(a, << >>)>>, negative_keywords) # << >>

\* C11: whether exclude_negative keeps an article does not depend on its
\* full_content: the articles kept are those that would be kept with every
\* negative keyword written into their full_content, and those that would
\* be kept with an empty full_content.
C11_ContentNotInspected ==
    pc \notin {"idle", "exclude"} =>
        /\ filtered = SelectSeq(articles, C11_KeptIfContentNegative)
        /\ filtered = SelectSeq(articles, C11_KeptIfContentEmpty)

\* exclude_negative kept an article whose full_content contains a negative
\* keyword.
C11_Witness ==
    /\ pc = "categorize"
    /\ \E i \in 1..Len(filtered) :
          check_keyword_match(Get(filtered[i], "full_content", << >>), negative_keywords)

\* C12: the mapping categorize_positive returns has the keys of the keyword
\* mapping and no other, one bucket for each; the bucket of a category
\* without keywords is empty.
C12_ExactlyTheKeys ==
    pc \notin {"idle", "exclude", "categorize"} =>
        /\ Len(passed_mapping) = Len(positive_keywords)
        /\ \A i \in 1..Len(positive_keywords) :
              /\ passed_mapping[i].k = positive_keywords[i].k
              /\ positive_keywords[i].v = << >> => passed_mapping[i].v = << >>

\* categorize_positive was given articles, a category without keywords and
\* a category with keywords that no article matches.
C12_Witness ==
    /\ pc = "dedup"
    /\ filtered # << >>
    /\ \E i, j \in 1..Len(positive_keywords) :
          /\ positive_keywords[i].v = << >>
          /\ positive_keywords[j].v # << >>
          /\ Bucket(passed_mapping, j) = << >>

\* C13: the bucket of a category is the subsequence, in input order, of the
\* articles whose normalised title + " " + summary + " " + full_content
\* contains one of the category's keywords, normalised the same way.
C13_BucketIsMatchingSubsequence ==
    pc \notin {"idle", "exclude", "categorize"} =>
        \A i \in 1..Len(positive_keywords) :
            LET keywords == positive_keywords[i].v
                Matches(a) ==
                    \E n \in 1..Len(keywords) :
                        IsSubstring(C10_Normal(keywords[n]),
                                    C10_Normal(Concat3(Get(a, "title", << >>),
                                                       Get(a, "summary", << >>),
                                                       Get(a, "full_content", << >>))))
            IN  Bucket(passed_mapping, i) = SelectSeq(filtered, Matches)

\* One article is in two buckets, and an article is in a bucket whose
\* keywords its title and summary do not match.
C13_Witness ==
    /\ pc = "dedup"
    /\ Len(passed_mapping) = 2
    /\ \E m, n \in 1..Len(filtered) :
          /\ \E j \in 1..Len(Bucket(passed_mapping, 1)) :
                Bucket(passed_mapping, 1)[j] = filtered[m]
          /\ \E j \in 1..Len(Bucket(passed_mapping, 2)) :
                Bucket(passed_mapping, 2)[j] = filtered[m]
          /\ \E i \in 1..2 :
                /\ \E j \in 1..Len(Bucket(passed_mapping, i)) :
                      Bucket(passed_mapping, i)[j] = filtered[n]
                /\ ~check_keyword_match(NegativeText(filtered[n]), positive_keywords[i].v)

\* C14: removing duplicates from a list that already went through the
\* removal changes nothing: of a bucket as it was passed, of the buckets
\* sort_and_limit holds after its first step, of the selection and of the
\* returned list.
C14_DedupIdempotent ==
    /\ \A i \in 1..Len(passed_mapping) :
          LET once == unique_articles(Bucket(passed_mapping, i))
          IN  unique_articles(once) = once
    /\ LET once == unique_articles(selected_articles)
       IN  unique_articles(once) = once
    /\ pc \notin {"idle", "dedup"} => DedupBuckets(categorized_articles) = categorized_articles
    /\ pc = "done" => unique_articles(final_articles) = final_articles

\* The first step removed an article from a bucket and left one in it.
C14_Witness ==
    /\ pc = "sort"
    /\ \E i \in 1..Len(passed_mapping) :
          /\ Bucket(categorized_articles, i) # << >>
          /\ Len(Bucket(categorized_articles, i)) < Len(Bucket(passed_mapping, i))

\* C15: filter_and_select returns the empty list when limit is 0, when there
\* is no article and when there is no category; in none of these calls is an
\* article ever selected.
C15_EmptyOnDegenerateInput ==
    /\ (pc = "done" /\ (limit = 0 \/ articles = << >> \/ positive_keywords = << >>))
           => final_articles = << >>
    /\ (limit = 0 \/ articles = << >> \/ positive_keywords = << >>)
           => selected_articles = << >>

\* A call with limit 0 returned although a bucket held an article.
C15_Witness ==
    /\ pc = "done"
    /\ limit = 0
    /\ \E i \in 1..Len(categorized_articles) : Bucket(categorized_articles, i) # << >>

\* The text lowercased, character by character.
Lowered(text) == [i \in 1..Len(text) |-> LowerChar(text[i])]

\* The text with every run of blanks reduced to one blank.
RECURSIVE CollapseRuns(_)
CollapseRuns(text) ==
    IF Len(text) < 2 THEN text
    ELSE IF text[1] = " " /\ text[2] = " " THEN CollapseRuns(Tail(text))
    ELSE <<text[1]>> \o CollapseRuns(Tail(text))

\* The text without a blank at its start and at its end.
Trim(text) ==
    LET from == IF text # << >> /\ text[1] = " " THEN 2 ELSE 1
        to == IF Len(text) >= from /\ text[Len(text)] = " "
              THEN Len(text) - 1 ELSE Len(text)
    IN  SubSeq(text, from, to)

\* C16: check_keyword_match returns true exactly when the text and the
\* keyword list are not empty and one keyword, normalised like the text, is
\* a substring of the normalised text; so it returns false for an empty
\* (or absent) text and for an empty keyword list.
C16_MatchContract ==
    fn_pc = "matched" =>
        match = (/\ arg_text \notin {None, << >>}
                 /\ arg_keywords # << >>
                 /\ \E n \in 1..Len(arg_keywords) :
                       IsSubstring(C10_Normal(arg_keywords[n]), C10_Normal(arg_text)))

\* The second of two keywords matched where the first did not.
C16_Witness ==
    /\ fn_pc = "matched"
    /\ match
    /\ Len(arg_keywords) = 2
    /\ ~check_keyword_match(arg_text, <<arg_keywords[1]>>)

\* C17 as stated: the returned text is the input lowercased with every run
\* of blanks reduced to one blank (the blanks at its ends kept or dropped),
\* and is empty for empty or absent input.
C17_LowercasedCollapsed ==
    fn_pc = "preprocessed" =>
        IF arg_text \in {None, << >>} THEN returned_text = << >>
        ELSE \/ returned_text = CollapseRuns(Lowered(arg_text))
             \/ returned_text = Trim(CollapseRuns(Lowered(arg_text)))

\* C17 as amended: the returned text is empty for empty or absent input and
\* otherwise the input lowercased; its runs of blanks are reduced to one
\* blank, and the blanks at its ends dropped, only when the tokenizer is
\* available and does not raise; otherwise its blanks are as in the input.
C17_LowercasedCollapsedByTokenizer ==
    fn_pc = "preprocessed" =>
        returned_text = IF arg_text \in {None, << >>} THEN << >>
                         ELSE IF tokenizer = "works"
                         THEN Trim(CollapseRuns(Lowered(arg_text)))
                         ELSE Lowered(arg_text)

\* A text with capitals and two blanks in a row was returned lowercased and
\* shorter.
C17_Witness ==
    /\ fn_pc = "preprocessed"
    /\ arg_text = W_tai2nan \/ arg_text = W_LeadingAi
    /\ Len(returned_text) < Len(arg_text)

\* C18: no exception leaves preprocess_vietnamese_text, and when the
\* tokenizer is unavailable or raises the returned text is the input
\* lowercased and nothing else (empty for empty or absent input).
C18_FallsBackToLowercase ==
    fn_pc = "preprocessed" =>
        /\ ~escaped
        /\ tokenizer \in {"unavailable", "raises"} =>
              IF arg_text \in {None, << >>} THEN returned_text = << >>
              ELSE /\ Len(returned_text) = Len(arg_text)
                   /\ \A i \in 1..Len(arg_text) : returned_text[i] = LowerChar(arg_text[i])

\* The tokenizer raised on a text with capitals.
C18_Witness ==
    /\ fn_pc = "preprocessed"
    /\ tokenizer = "raises"
    /\ arg_text \notin {None, << >>}
    /\ returned_text # arg_text

\* An article with a title and a url and nothing else, whose title matches a
\* positive keyword and which matches no negative keyword.
C19_BareMatch(a) ==
    /\ DOMAIN a \cap {"summary", "full_content", "publish_time"} = {}
    /\ Url(a) # ""
    /\ ~MatchesNegative(a)
    /\ \E i \in 1..Len(positive_keywords) :
          check_keyword_match(Get(a, "title", << >>), positive_keywords[i].v)

C20_AttemptsUntilSuccess ==
    /\ Len(sent_log) <= max_retries
    /\ \A i \in 1..(Len(sent_log) - 1) : ~Success(sent_log[i])
    /\ mail_pc = "done" =>
          /\ returned = (\E i \in 1..Len(sent_log) : Success(sent_log[i]))
          /\ ~returned => Len(sent_log) = max_retries

\* A call that succeeded at its second attempt with a third one allowed.
C20_Witness ==
    /\ mail_pc = "done"
    /\ returned
    /\ Len(sent_log) = 2
    /\ max_retries = 3

\* The round-robin loop has started.
Selecting == pc \in {"round_robin", "finalize", "done"}

\* The cursor of the i-th category.
Cursor(i) == category_indices[categorized_articles[i].k]

\* The number of picks the cursors of the first n categories stand for.
RECURSIVE PicksUpTo(_)
PicksUpTo(n) == IF n = 0 THEN 0 ELSE PicksUpTo(n - 1) + Cursor(n)

\* C24: every pick from every category counts toward the limit, also the
\* pick of a url that another category has given already: the selection is
\* as long as the cursors add up to, it holds a url once for every category
\* that picked it, and the returned list holds it once.
C24_CopiesCountTowardLimit ==
    Selecting =>
        /\ Len(selected_articles) = PicksUpTo(Len(categorized_articles))
        /\ \A u \in {Url(selected_articles[j]) : j \in 1..Len(selected_articles)} :
              Cardinality({j \in 1..Len(selected_articles) : Url(selected_articles[j]) = u})
                  = Cardinality({i \in 1..Len(categorized_articles) :
                                    \E j \in 1..Cursor(i) :
                                        Url(Bucket(categorized_articles, i)[j]) = u})
        /\ pc = "done" =>
              Len(final_articles)
                  = Cardinality({Url(selected_articles[j]) : j \in 1..Len(selected_articles)})

\* The selection reached the limit, fewer than limit articles were
\* returned, and a bucket still holds an unpicked article with another url.
C24_Witness ==
    /\ pc = "done"
    /\ limit > 0
    /\ Len(selected_articles) = limit
    /\ Len(final_articles) < limit
    /\ \E i \in 1..Len(categorized_articles) :
          \E j \in (Cursor(i) + 1)..Len(Bucket(categorized_articles, i)) :
              /\ Url(Bucket(categorized_articles, i)[j]) # ""
              /\ \A k \in 1..Len(final_articles) :
                    Url(final_articles[k]) # Url(Bucket(categorized_articles, i)[j])

\* The picks of rounds r and later, in the order they are made: in a round
\* every category whose cursor reaches that far gives its r-th article.
RECURSIVE PicksFromRound(_)
PicksFromRound(r) ==
    IF \A i \in 1..Len(categorized_articles) : Cursor(i) < r THEN << >>
    ELSE LET RECURSIVE Round(_)
             Round(i) ==
                 IF i > Len(categorized_articles) THEN << >>
                 ELSE (IF Cursor(i) >= r THEN <<Bucket(categorized_articles, i)[r]>>
                       ELSE << >>) \o Round(i + 1)
         IN  Round(1) \o PicksFromRound(r + 1)

\* C25: during and after the round-robin loop every bucket is ordered by
\* publish_time descending, the selection consists of the first c articles
\* of every bucket (c its cursor) taken round by round, and so no picked
\* article of a category is older than an unpicked one.
C25_NewestFirstWithinCategory ==
    Selecting =>
        /\ \A i \in 1..Len(categorized_articles) :
              /\ Cursor(i) \in 0..Len(Bucket(categorized_articles, i))
              /\ \A j, k \in 1..Len(Bucket(categorized_articles, i)) :
                    (j <= Cursor(i) /\ Cursor(i) < k) =>
                        SortKey(Bucket(categorized_articles, i)[j])
                            >= SortKey(Bucket(categorized_articles, i)[k])
        /\ selected_articles = PicksFromRound(1)

\* A bucket that the sort reordered gave its newest article and kept an
\* older one back.
C25_Witness ==
    /\ pc = "done"
    /\ \E i \in 1..Len(categorized_articles) :
          /\ Cursor(i) >= 1
          /\ Cursor(i) < Len(Bucket(categorized_articles, i))
          /\ Bucket(categorized_articles, i)[1] # Bucket(passed_mapping, i)[1]
          /\ SortKey(Bucket(categorized_articles, i)[1])
                 > SortKey(Bucket(categorized_articles, i)[Len(Bucket(categorized_articles, i))])

\* C26: between sweeps a category has at least as many picks as every
\* category after it in the mapping, unless its own bucket is exhausted.
C26_EarlierCategoryFirst ==
    Selecting =>
        \A i, j \in 1..Len(categorized_articles) :
            i < j => \/ Cursor(i) >= Cursor(j)
                     \/ Cursor(i) = Len(Bucket(categorized_articles, i))

\* The limit was reached in the middle of a sweep: the first category has
\* one pick more than the second, which still has an article.
C26_Witness ==
    /\ pc = "done"
    /\ Len(selected_articles) = limit
    /\ Len(categorized_articles) = 2
    /\ Cursor(1) = Cursor(2) + 1
    /\ Cursor(2) < Len(Bucket(categorized_articles, 2))

\* The articles of arts that have a url.
WithUrl(arts) ==
    LET HasUrl(a) == Url(a) # ""
    IN  SelectSeq(arts, HasUrl)

\* The first article of each url of arts, in the order of arts.
RECURSIVE FirstSeen(_)
FirstSeen(arts) ==
    IF arts = << >> THEN << >>
    ELSE LET n == Len(arts)
         IN  FirstSeen(SubSeq(arts, 1, n - 1))
             \o (IF Url(arts[n]) # "" /\ \A j \in 1..(n - 1) : Url(arts[j]) # Url(arts[n])
                 THEN <<arts[n]>> ELSE << >>)

\* The articles of a list, as a set.
Members(arts) == {arts[j] : j \in 1..Len(arts)}

\* C27: of the articles of a bucket that share a url the dedup keeps the
\* first, and it keeps the kept articles in their order; the sort comes
\* after it, so the bucket holds the first article of a url from then on,
\* also when a later one is newer; the final dedup keeps the first of the
\* selection likewise.
C27_FirstSeenKept ==
    /\ pc = "sort" =>
          \A i \in 1..Len(categorized_articles) :
              WithUrl(Bucket(categorized_articles, i)) = FirstSeen(Bucket(passed_mapping, i))
    /\ Selecting =>
          \A i \in 1..Len(categorized_articles) :
              Members(WithUrl(Bucket(categorized_articles, i)))
                  = Members(FirstSeen(Bucket(passed_mapping, i)))
    /\ pc = "done" =>
          Members(WithUrl(final_articles)) = Members(FirstSeen(selected_articles))

\* A bucket held two articles of one url, the later one newer, and holds
\* the earlier one after the sort.
C27_Witness ==
    /\ pc = "round_robin"
    /\ \E i \in 1..Len(passed_mapping) :
          \E m, n \in 1..Len(Bucket(passed_mapping, i)) :
              /\ m < n
              /\ Url(Bucket(passed_mapping, i)[m]) # ""
              /\ Url(Bucket(passed_mapping, i)[m]) = Url(Bucket(passed_mapping, i)[n])
              /\ SortKey(Bucket(passed_mapping, i)[n]) > SortKey(Bucket(passed_mapping, i)[m])
              /\ Bucket(passed_mapping, i)[m] \in Members(Bucket(categorized_articles, i))
              /\ Bucket(passed_mapping, i)[n] \notin Members(Bucket(categorized_articles, i))

\* C28: no step of filter_and_select changes the article list, an article
\* of it, the positive-keyword mapping or the negative-keyword list, and a
\* second call with the same arguments returns what the first returned.
C28_InputsUnchangedAndRepeatable ==
    /\ [][pc # "idle" => UNCHANGED inputVars]_vars
    /\ [](repeated /\ pc = "done" => final_articles = first_result)

\* A second call returned; there was no negative keyword, so the list the
\* first call worked on was the article list itself; the first call had
\* found the dict it handed to sort_and_limit changed and had returned the
\* articles in another order than they came in.
C28_Witness ==
    /\ repeated
    /\ pc = "done"
    /\ negative_keywords = << >>
    /\ first_result # << >>
    /\ categorized_articles # passed_mapping
    /\ first_result # SubSeq(articles, 1, Len(first_result))

\* C29: the i-th wait of send_email_with_retries is 2^(i-1) seconds; every
\* attempt but the first is preceded by one wait for each earlier, failed
\* attempt; after a successful attempt and after the last allowed attempt
\* there is no wait.
C29_ExponentialWaits ==
    /\ \A i \in 1..Len(sleeps) : sleeps[i] = 2 ^ (i - 1)
    /\ Len(sleeps) <= Len(sent_log)
    /\ mail_pc = "send" => Len(sleeps) = Len(sent_log)
    /\ mail_pc = "done" =>
          Len(sleeps) = IF returned THEN Len(sent_log) - 1
                        ELSE IF max_retries > 0 THEN max_retries - 1 ELSE 0

\* Three attempts failed: the waits were 1 and 2 seconds.
C29_Witness ==
    /\ mail_pc = "done"
    /\ ~returned
    /\ Len(sent_log) = 3
    /\ sleeps = <<1, 2>>

\* A required field is missing or empty, or the port is no integer.
ConfigInvalid(config) ==
    \/ \E f \in {"host", "port", "username", "password"} :
          f \notin DOMAIN config \/ config[f] = << >>
    \/ \E i \in 1..Len(config["port"]) : config["port"][i] \notin Digits

\* C23: when the smtp_config is invalid or there is no recipient, send_email
\* makes no smtplib call, opens no connection and returns False.
C23_NoConnectionOnBadInput ==
    (send_pc \notin {"idle", "validate"}
         /\ (ConfigInvalid(smtp_config) \/ recipients = << >>)) =>
        /\ send_pc = "done"
        /\ send_result = FALSE
        /\ smtp_calls = << >>
        /\ server = "none"

\* A call with recipients and a port that is no number returned.
C23_Witness ==
    /\ send_pc = "done"
    /\ recipients # << >>
    /\ smtp_config = [ValidConfig EXCEPT !.port = V_NotANumber]

\* C30: when send_email has returned, every connection it opened has been
\* closed with quit.
C30_ConnectionClosed ==
    (send_pc = "done" /\ server # "none") =>
        \E i \in 1..Len(smtp_calls) : smtp_calls[i] = "quit"

\* The collaborators of pipeline(), in the order the code calls them.
PipelineOrder == <<"fetch_articles", "filter_and_select", "send_notification_email">>

\* C21: the calls pipeline() has made are always the first so many of
\* fetch_articles, filter_and_select, send_notification_email, in that
\* order; a run in which nothing raised has made all three, once each, and
\* has handed send_notification_email the list filter_and_select returned,
\* also when that list is empty.
C21_StepsInOrder ==
    /\ Len(steps) <= 3
    /\ steps = SubSeq(PipelineOrder, 1, Len(steps))
    /\ (run_pc = "done" /\ raised_in = "none") =>
          /\ steps = PipelineOrder
          /\ emailed = final_articles

\* A run without an exception selected nothing and called the email step.
C21_Witness ==
    /\ run_pc = "done"
    /\ raised_in = "none"
    /\ articles # << >>
    /\ final_articles = << >>
    /\ steps[Len(steps)] = "send_notification_email"

\* C22: no exception leaves pipeline(); when a collaborator raised, the
\* error is logged, the run is over, and the collaborator that raised is
\* the last one that was called.
C22_ErrorsEndTheRun ==
    /\ ~pipeline_escaped
    /\ raised_in # "none" =>
          /\ error_logged
          /\ run_pc = "done"
          /\ steps # << >>
          /\ steps[Len(steps)] = raised_in

\* fetch_articles raised: the run ended with that one call made.
C22_Witness ==
    /\ run_pc = "done"
    /\ raised_in = "fetch_articles"
    /\ steps = <<"fetch_articles">>


====
